---- MODULE Spec2Model ----
(***************************************************************************)
(* Bengaluru GeoInsights: the layer aggregation and cross-layer selection  *)
(* engine of src/src/App.js and CustomSearch (src/unnamed/part_000).       *)
(*                                                                         *)
(* One action is one task of the browser's event loop: a click handler or  *)
(* the settling of a fetch, together with the React render, commit and     *)
(* effects that it triggers.                                               *)
(***************************************************************************)
EXTENDS Integers, Sequences, FiniteSets, Bags, TLC

VARIABLES
    layersVisibility,   \* App state: layerId -> BOOLEAN
    wardData,           \* App state: NULL or the ward FeatureCollection (its features)
    schoolData,         \* App state: NULL or the school FeatureCollection
    treeData,           \* App state: NULL or the merged tree FeatureCollection
    openPopupFeature,   \* App state: NULL or the selected raw feature
    wardFetch,          \* the ward fetch issued at mount: "pending", "ok", "failed"
    schoolLoads,        \* the school queries issued so far, one status per attempt
    treeLoads,          \* the tree load attempts issued so far (loadTreeDataParts closures)
    demLoads,           \* the DEM load attempts issued so far (loadGeoRasters closures)
    keyed,              \* the school feature objects on which the renderer has set __key
    markersRef,         \* SchoolLayer.markersRef.current: idx -> marker handle
    popups,             \* the popups open on the map, each named by its owning feature
    treeGroupRef,       \* LeafletTreeLayer.markerClusterGroupRef.current
    geoRasterLayersRef, \* DEMLayer.geoRasterLayersRef.current
    mapLayers,          \* the overlays (tree cluster groups, raster layers) on the map
    query,              \* CustomSearch state: the text of the search box
    results,            \* CustomSearch state: the result list
    crashed,            \* an error escaped a render: React has unmounted the tree
    pixel,              \* the last pixel a raster layer asked its colour function about
    viewport,           \* the last call that moved the map: setView or fitBounds
    wardErrors,         \* number of console.error("Error loading ward data", err) calls
    bookmarks,          \* BookmarksWidget state: the bookmarks in memory
    mapBookmarks,       \* localStorage: the item stored under the key 'mapBookmarks'
    visible,            \* BookmarksWidget state: the popup of the widget is shown
    newBookmarkName,    \* BookmarksWidget state: the text of the name input
    reads,              \* localStorage.getItem('mapBookmarks') calls since the page was loaded
    session,            \* number of times the page has been loaded
    toggles             \* number of toggleLayer calls so far

vars == << layersVisibility, wardData, schoolData, treeData, openPopupFeature,
           wardFetch, schoolLoads, treeLoads, demLoads, keyed, markersRef, popups,
           treeGroupRef, geoRasterLayersRef, mapLayers, query, results, crashed, pixel,
           viewport, wardErrors, bookmarks, mapBookmarks, visible, newBookmarkName, reads,
           session, toggles >>

-----------------------------------------------------------------------------
(* Bounds of the model *)

\* clicks on the checkboxes of the layer list (toggleLayer calls) in one run
MaxToggles == 3
\* the same, in the runs of SpecLoad, where the loads of all four layers interleave
MaxLoadToggles == 2
\* the same, in the runs of SpecColour, where the pixels of the raster layers are drawn
MaxColourToggles == 1
\* the wards of the large ward file of the runs of SpecSearch
MaxWards == 12
\* the bookmarks of the list of the widget
MaxBookmarks == 2
\* the loads of the page in one run
MaxSessions == 2

-----------------------------------------------------------------------------
(* Values *)

\* null: every nullable value of the model is a record, and so is null
NULL == [ kind |-> "null" ]
\* a property that is absent from a feature's properties
Undefined == << "undefined" >>

Layers == {"ward", "schools", "trees", "dem"}

\* JavaScript truthiness of a string-valued property (a || b, a ? x : y)
Truthy(s) == s # Undefined /\ s # << >>

\* mutant: a ?? b, which keeps an empty string
OrElseNullish(a, b) == IF a # Undefined THEN a ELSE b

\* a || b || c on string-valued properties
OrElse(a, b) == IF Truthy(a) THEN a ELSE b

\* loop bound of loadTreeDataParts
NumParts == 6

\* the tile files of DEMLayer.demFiles
NumTiles == 3

WardFeature(i, wardName) ==
    [ kind |-> "ward", load |-> 0, idx |-> i, geomType |-> "Polygon", ncoords |-> 0,
      KGISWardName |-> wardName, tagsName |-> Undefined, name |-> Undefined ]

SchoolFeature(k, i, type, n, tname, pname) ==
    [ kind |-> "school", load |-> k, idx |-> i, geomType |-> type, ncoords |-> n,
      KGISWardName |-> Undefined, tagsName |-> tname, name |-> pname ]

\* /data/ward-boundaries.geojson: two wards of the same name and one without a name
WardFile ==
    << WardFeature(1, << "A", "b" >>),
       WardFeature(2, << "A", "b" >>),
       WardFeature(3, Undefined) >>

\* osmtogeojson(response) of the k-th Overpass query: a named node, a way (polygon),
\* an unnamed node, and a node with an elevation (three coordinates) whose tags.name
\* is the empty string
SchoolResponse(k) ==
    << SchoolFeature(k, 1, "Point", 2, << "a", "B", " ", "c" >>, Undefined),
       SchoolFeature(k, 2, "Polygon", 5, Undefined, << "S" >>),
       SchoolFeature(k, 3, "Point", 2, Undefined, Undefined),
       SchoolFeature(k, 4, "Point", 3, << >>, << "S" >>) >>

Range(s) == { s[i] : i \in DOMAIN s }

FeatureCollection(k, fs) == [ kind |-> "FeatureCollection", load |-> k, features |-> fs ]

-----------------------------------------------------------------------------
(* Search index: CustomSearch *)

\* mutant: the case of the letters is kept
keepCase(s) == s

\* String.prototype.toLowerCase on the characters the datasets use
LowerChar(c) ==
    CASE c = "A" -> "a" [] c = "B" -> "b" [] c = "S" -> "s"
      [] c = "U" -> "u" [] c = "W" -> "w" [] OTHER -> c

toLowerCase(s) == [ i \in DOMAIN s |-> LowerChar(s[i]) ]

\* String.prototype.includes
includes(s, t) ==
    \E i \in 0 .. (Len(s) - Len(t)) : SubSeq(s, i + 1, i + Len(t)) = t

UnnamedWard == << "U", "n", "n", "a", "m", "e", "d", " ", "W", "a", "r", "d" >>
UnnamedSchool == << "U", "n", "n", "a", "m", "e", "d", " ", "S", "c", "h", "o", "o", "l" >>

\* filtered.slice(0, 10)
MaxResults == 10

\* L.geoJSON(feature).getBounds()
getBounds(feature) == [ boundsOf |-> feature.idx ]

\* [coords[1], coords[0]]: the latitude and longitude of a GeoJSON [lng, lat]
LatLng(feature) == [ lat |-> << "lat", feature.load, feature.idx >>,
                     lng |-> << "lng", feature.load, feature.idx >> ]

WardItem(feature) ==
    [ type |-> "Ward", name |-> OrElse(feature.KGISWardName, UnnamedWard),
      feature |-> feature, latlng |-> NULL, bounds |-> getBounds(feature) ]

SchoolItem(feature) ==
    [ type |-> "School",
      name |-> OrElse(feature.tagsName, OrElse(feature.name, UnnamedSchool)),
      feature |-> feature, latlng |-> LatLng(feature), bounds |-> NULL ]

\* coords && feature.geometry.type === "Point"
SchoolIndexed(feature) == feature.ncoords > 0 /\ feature.geomType = "Point"

\* mutant: the schools are put in front of the wards
searchableItemsSchoolsFirst(wardsData, schoolsData) ==
    LET wards == IF wardsData = NULL THEN << >>
                 ELSE [ i \in DOMAIN wardsData.features |-> WardItem(wardsData.features[i]) ]
        schools == IF schoolsData = NULL THEN << >>
                   ELSE [ i \in DOMAIN schoolsData.features |->
                            SchoolItem(schoolsData.features[i]) ]
    IN  SelectSeq(schools, LAMBDA item : SchoolIndexed(item.feature)) \o wards

\* the array searchableItems that a render of CustomSearch builds from its props
searchableItems(wardsData, schoolsData) ==
    LET wards == IF wardsData = NULL THEN << >>
                 ELSE [ i \in DOMAIN wardsData.features |-> WardItem(wardsData.features[i]) ]
        schools == IF schoolsData = NULL THEN << >>
                   ELSE [ i \in DOMAIN schoolsData.features |->
                            SchoolItem(schoolsData.features[i]) ]
    IN  wards \o SelectSeq(schools, LAMBDA item : SchoolIndexed(item.feature))

\* mutant: the whole array
sliceAll(s, n) == s

slice(s, n) == SubSeq(s, 1, IF Len(s) < n THEN Len(s) ELSE n)

\* the value the effect on [query] gives to setResults
Search(q, items) ==
    IF Len(q) = 0 THEN << >>
    ELSE slice(SelectSeq(items, LAMBDA item :
                   includes(toLowerCase(item.name), toLowerCase(q))), MaxResults)

-----------------------------------------------------------------------------
(* Routing of the selection: the App render and toggleLayer *)

\* openPopupFeature.__key?.startsWith('tree-') throws a TypeError when __key is the
\* number the school renderer has assigned: a number has no method startsWith
SchoolPredThrows(feature, keys) ==
    feature # NULL /\ feature.geomType = "Point" /\ feature \in keys

\* openPopupFeature?.geometry?.type === "Point" && !openPopupFeature.__key?.startsWith('tree-')
SchoolPred(feature, keys) ==
    feature # NULL /\ feature.geomType = "Point" /\ feature \notin keys

\* openPopupFeature?.properties?.KGISWardName
WardPred(feature) == feature # NULL /\ Truthy(feature.KGISWardName)

\* the prop openPopupFeature that App passes to WardLayer
WardProp(feature) == IF WardPred(feature) THEN feature ELSE NULL

\* the prop openPopupFeature that App passes to SchoolLayer
SchoolProp(feature, keys) == IF SchoolPred(feature, keys) THEN feature ELSE NULL

\* the condition of toggleLayer under which it calls setOpenPopupFeature(null)
ToggleClears(layerId, feature, keys) ==
    \/ layerId = "ward" /\ WardPred(feature)
    \/ layerId = "schools" /\ SchoolPred(feature, keys)

\* the evaluation of that condition throws
ToggleThrows(layerId, feature, keys) ==
    /\ ~ (layerId = "ward" /\ WardPred(feature))
    /\ layerId = "schools" /\ SchoolPredThrows(feature, keys)

-----------------------------------------------------------------------------
(* The layer renderers *)

\* the features for which WardLayer's GeoJSON holds a polygon layer
WardDrawn(vis, wd) ==
    IF vis["ward"] /\ wd # NULL THEN Range(wd.features) ELSE {}

\* !coords || type !== "Point" || coords.length !== 2  =>  no marker
SchoolDrawable(feature) == feature.ncoords = 2 /\ feature.geomType = "Point"

\* the features for which SchoolLayer renders a Marker (and sets feature.__key = idx)
SchoolDrawn(vis, sd) ==
    IF vis["schools"] /\ sd # NULL
    THEN { f \in Range(sd.features) : SchoolDrawable(f) }
    ELSE {}

\* markersRef.current after the ref callbacks of the rendered markers have run:
\* entries are written, never deleted
MarkersAfter(markers, drawn) ==
    [ i \in DOMAIN markers \cup { f.idx : f \in drawn } |->
        IF \E f \in drawn : f.idx = i
        THEN CHOOSE f \in drawn : f.idx = i
        ELSE markers[i] ]

\* layer.bindPopup(..).openPopup(..) / marker.openPopup(): Leaflet closes the popup
\* that is open on the map (autoClose) and opens this one
OpenPopup(open, owner) == {owner}

\* WardLayer's effect on [openPopupFeature]: every polygon whose KGISWardName equals
\* the selected one gets its popup opened, in the order of eachLayer
RECURSIVE WardEffect(_, _, _, _)
WardEffect(open, features, i, prop) ==
    IF i > Len(features) THEN open
    ELSE WardEffect(
             IF features[i].KGISWardName = prop.KGISWardName
             THEN OpenPopup(open, features[i]) ELSE open,
             features, i + 1, prop)

\* SchoolLayer's effect on [openPopupFeature]: close the popups of all markers of
\* markersRef, then open the popup of markersRef.current[openPopupFeature.__key]
SchoolEffect(open, markers, keys, drawn, prop) ==
    LET closed == open \ Range(markers)
    IN  IF prop \in keys /\ prop.idx \in DOMAIN markers /\ markers[prop.idx] \in drawn
        THEN OpenPopup(closed, markers[prop.idx])
        ELSE closed

\* the render of App throws when it evaluates the prop of SchoolLayer
Throws(sel) == SchoolPredThrows(sel, keyed)

\* The render of WardLayer and SchoolLayer after a state change of App (whose own
\* render did not throw), the commit, and the effects of the two on their prop
\* openPopupFeature. sel is the new value of the state openPopupFeature.
Commit(vis, wd, sd, sel) ==
    LET drawnS == SchoolDrawn(vis, sd)
        drawnW == WardDrawn(vis, wd)
        keys == keyed \cup drawnS
        markers == MarkersAfter(markersRef, drawnS)
        \* a popup closes when its polygon or marker leaves the map
        open0 == popups \cap (drawnW \cup drawnS)
        wardOld == WardProp(openPopupFeature)
        wardNew == WardProp(sel)
        open1 == IF wardNew # wardOld /\ wardNew # NULL /\ drawnW # {}
                 THEN WardEffect(open0, wd.features, 1, wardNew)
                 ELSE open0
        \* the last render did not throw: the prop was the selection if it is a Point
        schoolOld == IF openPopupFeature # NULL /\ openPopupFeature.geomType = "Point"
                     THEN openPopupFeature ELSE NULL
        schoolNew == SchoolProp(sel, keyed)
        open2 == IF schoolNew # schoolOld /\ schoolNew # NULL
                 THEN SchoolEffect(open1, markers, keys, drawnS, schoolNew)
                 ELSE open1
    IN  /\ crashed' = FALSE
        /\ keyed' = keys
        /\ markersRef' = markers
        /\ popups' = open2

-----------------------------------------------------------------------------
(* Tree census parts and DEM tiles *)

PartSize(i) == IF i = 2 THEN 2 ELSE 1

\* data.features of /data/tree_census_part_000i.geojson
\* feature.properties.TreeName of the trees of the census
TreeName == << "n", "e", "e", "m" >>

PartFeatures(i) ==
    SetToBag({ [ kind |-> "tree", part |-> i, n |-> j, TreeName |-> TreeName ] :
                 j \in 1 .. PartSize(i) })

\* the closure of one call of loadTreeDataParts: the state of its six promise
\* chains, its array allFeatures (as a bag: the order of the pushes is the order in
\* which the parts complete) and the number of its calls of setTreeData
NewTreeLoad ==
    [ parts |-> [ i \in 1 .. NumParts |-> "pending" ],
      allFeatures |-> EmptyBag,
      sets |-> 0 ]

\* mutant: completion taken to be the first success instead of all parts settled
SettledOnFirstSuccess(load) == \E i \in 1 .. NumParts : load.parts[i] = "merged"

Settled(load) == \A i \in 1 .. NumParts : load.parts[i] # "pending"

\* the closure of one call of loadGeoRasters: the tile the for loop awaits, and the
\* arrays loadedGeorasters, allMins, allMaxs
NewDemLoad == [ next |-> 1, loadedGeorasters |-> << >>, allMins |-> << >>, allMaxs |-> << >> ]

\* a parsed georaster whose band 0 declares lo and hi
Georaster(lo, hi) == [ mins |-> lo, maxs |-> hi ]

\* mutant: the range starts at the minimum of the first tile
SeqHead(s) == s[1]

RECURSIVE SeqMin(_)
SeqMin(s) ==
    IF Len(s) = 1 THEN s[1]
    ELSE LET m == SeqMin(Tail(s)) IN IF s[1] < m THEN s[1] ELSE m

RECURSIVE SeqMax(_)
SeqMax(s) ==
    IF Len(s) = 1 THEN s[1]
    ELSE LET m == SeqMax(Tail(s)) IN IF s[1] > m THEN s[1] ELSE m

\* mutant: no abort check, every loaded tile is drawn; Math.min() of no value is
\* +Infinity and Math.max() of no value is -Infinity (here beyond every elevation)
RasterLayersNoAbort(a, load) ==
    [ i \in DOMAIN load.loadedGeorasters |->
        [ kind |-> "raster", load |-> a, tile |-> load.loadedGeorasters[i].name,
          globalMin |-> IF load.allMins = << >> THEN 1000000 ELSE SeqMin(load.allMins),
          globalMax |-> IF load.allMaxs = << >> THEN -1000000 ELSE SeqMax(load.allMaxs) ] ]

\* the raster layers that loadGeoRasters adds once its for loop has ended
RasterLayers(a, load) ==
    IF load.loadedGeorasters = << >> \/ load.allMins = << >> \/ load.allMaxs = << >>
    THEN << >>
    ELSE [ i \in DOMAIN load.loadedGeorasters |->
             [ kind |-> "raster", load |-> a, tile |-> load.loadedGeorasters[i].name,
               globalMin |-> SeqMin(load.allMins), globalMax |-> SeqMax(load.allMaxs) ] ]

SeqToBag(s) == [ x \in Range(s) |-> Cardinality({ i \in DOMAIN s : s[i] = x }) ]

\* map.removeLayer(layer) for every layer of a list
RemoveLayers(onMap, layerSeq) ==
    [ x \in { y \in DOMAIN onMap : y \notin Range(layerSeq) } |-> onMap[x] ]

-----------------------------------------------------------------------------
(* The colour function of a raster layer: pixelValuesToColorFn *)

\* pixelValues[0]: a number, or undefined, null or NaN
Number(v) == [ kind |-> "number", v |-> v ]
NotNumbers == { [ kind |-> "undefined" ], NULL, [ kind |-> "NaN" ] }

\* the band outside which a value is taken to be no-data
SentinelLow == -9999
SentinelHigh == 9999

\* Math.floor(n / d) for integers n and d # 0; the code computes
\* Math.floor(((v - globalMin) / d) * 255) in doubles, which for integer elevations of
\* the band gives the same clamped shade as the exact quotient
Floor(n, d) == IF d > 0 THEN n \div d ELSE (0 - n) \div (0 - d)

\* mutant: the shade is not clamped
unclampedShade(shade) == shade

\* Math.max(0, Math.min(255, shade))
clampedShade(shade) == IF shade < 0 THEN 0 ELSE IF shade > 255 THEN 255 ELSE shade

\* globalRange === 0 ? 1 : globalRange
effectiveGlobalRange(globalMin, globalMax) ==
    IF globalMax - globalMin = 0 THEN 1 ELSE globalMax - globalMin

\* mutant: the limits of the band are taken to be no-data as well
pixelValuesToColorFnOpenBand(pixelValue, globalMin, globalMax) ==
    IF pixelValue \in NotNumbers THEN NULL
    ELSE IF pixelValue.v <= SentinelLow \/ pixelValue.v >= SentinelHigh THEN NULL
    ELSE [ kind |-> "rgb",
           shade |-> clampedShade(Floor(255 * (pixelValue.v - globalMin),
                                        effectiveGlobalRange(globalMin, globalMax))) ]

\* mutant: the ramp is inverted, the value is measured from globalMax
pixelValuesToColorFnInverted(pixelValue, globalMin, globalMax) ==
    IF pixelValue \in NotNumbers THEN NULL
    ELSE IF pixelValue.v < SentinelLow \/ pixelValue.v > SentinelHigh THEN NULL
    ELSE [ kind |-> "rgb",
           shade |-> clampedShade(Floor(255 * (globalMax - pixelValue.v),
                                        effectiveGlobalRange(globalMin, globalMax))) ]

\* the colour function that loadGeoRasters builds from globalMin and globalMax:
\* NULL (no pixel drawn), or the grey rgb(shade, shade, shade)
pixelValuesToColorFn(pixelValue, globalMin, globalMax) ==
    IF pixelValue \in NotNumbers THEN NULL
    ELSE IF pixelValue.v < SentinelLow \/ pixelValue.v > SentinelHigh THEN NULL
    ELSE [ kind |-> "rgb",
           shade |-> clampedShade(Floor(255 * (pixelValue.v - globalMin),
                                        effectiveGlobalRange(globalMin, globalMax))) ]

-----------------------------------------------------------------------------
(* Overlays: LeafletTreeLayer and DEMLayer *)

TreeGroup(td) == [ kind |-> "treeGroup", load |-> td.load, features |-> td.features ]

\* LeafletTreeLayer's effect on [visible, treeData, map, treeColorMap] (with the
\* cleanup of its previous run)
TreeLayerEffect(vis, td) ==
    IF vis["trees"] = layersVisibility["trees"] /\ td = treeData
    THEN UNCHANGED << treeGroupRef, mapLayers >>
    ELSE LET cleared == IF treeGroupRef # NULL
                        THEN RemoveLayers(mapLayers, << treeGroupRef >>)
                        ELSE mapLayers
         IN  IF vis["trees"] /\ td # NULL /\ td.features # EmptyBag
             THEN /\ treeGroupRef' = TreeGroup(td)
                  /\ mapLayers' = cleared (+) SetToBag({TreeGroup(td)})
             ELSE /\ treeGroupRef' = NULL
                  /\ mapLayers' = cleared

\* the unmount of the whole tree after an uncaught render error: every effect
\* cleanup runs and the map is removed
Unmount ==
    /\ crashed' = TRUE
    /\ popups' = {}
    /\ mapLayers' = EmptyBag
    /\ treeGroupRef' = NULL
    /\ geoRasterLayersRef' = << >>
    /\ UNCHANGED << keyed, markersRef >>

-----------------------------------------------------------------------------
(* The bookmarks widget: its values, the store and its mount *)

\* a JavaScript array
Array(items) == [ kind |-> "array", items |-> items ]
\* a JavaScript object that is no array: {}
Object == [ kind |-> "object" ]

\* { id, name, center: [lat, lng], zoom }
Bookmark(id, name, center, zoom) ==
    [ id |-> id, name |-> name, center |-> center, zoom |-> zoom ]

\* the item of the store: absent (getItem gives null), the empty string, a text
\* that is no JSON, or the JSON text of a value
EmptyText == [ kind |-> "empty" ]
NotJSON == [ kind |-> "garbage" ]
JSONText(value) == [ kind |-> "json", value |-> value ]

\* JSON of a number: NaN and the infinities are written as null
JSONNumber(n) == IF n.kind = "number" THEN n ELSE NULL

\* JSON of an element of the list
JSONElement(bm) ==
    IF bm = NULL THEN NULL
    ELSE [ id |-> bm.id, name |-> bm.name,
           center |-> << JSONNumber(bm.center[1]), JSONNumber(bm.center[2]) >>,
           zoom |-> JSONNumber(bm.zoom) ]

\* JSON.stringify(bookmarks)
stringify(value) ==
    IF value.kind = "array"
    THEN JSONText(Array([ i \in DOMAIN value.items |-> JSONElement(value.items[i]) ]))
    ELSE JSONText(value)

\* JSON.parse(storedBookmarks) throws a SyntaxError
ParseThrows(text) == text.kind # "json"
\* JSON.parse(storedBookmarks)
parse(text) == text.value

\* mutant: the widget has no save effect
SaveEffectMissing(store, value) == store

\* the save effect: localStorage.setItem('mapBookmarks', JSON.stringify(bookmarks))
SaveEffect(store, value) == stringify(value)

\* mutant: the save effect is declared before the load effect and the store is
\* read after it was written
MountedSaveFirst(store) ==
    [ bookmarks |-> Array(<< >>), mapBookmarks |-> SaveEffect(store, Array(<< >>)) ]

\* the mount of the widget with useState([]): the load effect reads the store and
\* sets the state when the item is a non-empty text that parses; the save effect
\* writes the empty list; the render that the load effect asked for commits the
\* parsed value and the save effect writes it back
Mounted(store) ==
    LET initial == Array(<< >>)
        saved == SaveEffect(store, initial)
    IN  IF store = NULL \/ store = EmptyText \/ ParseThrows(store)
        THEN [ bookmarks |-> initial, mapBookmarks |-> saved ]
        ELSE [ bookmarks |-> parse(store), mapBookmarks |-> SaveEffect(saved, parse(store)) ]

\* the render of the list throws: bookmarks.length or bookmarks.map on a value that
\* is no array, or bm.id on an element that is null
RenderThrows(value) ==
    \/ value.kind # "array"
    \/ \E i \in DOMAIN value.items : value.items[i] = NULL

\* name.trim()
RECURSIVE trimStart(_)
trimStart(name) ==
    IF name # << >> /\ Head(name) = " " THEN trimStart(Tail(name)) ELSE name

RECURSIVE trimEnd(_)
trimEnd(name) ==
    IF name # << >> /\ name[Len(name)] = " "
    THEN trimEnd(SubSeq(name, 1, Len(name) - 1))
    ELSE name

trim(name) == trimEnd(trimStart(name))

-----------------------------------------------------------------------------
(* Initial state: App has mounted, its effects have run *)

\* the state of the application after the mount, whatever the store holds
AppInit ==

    /\ layersVisibility = [ ward |-> FALSE, schools |-> TRUE, trees |-> FALSE, dem |-> FALSE ]
    /\ wardData = NULL
    /\ schoolData = NULL
    /\ treeData = NULL
    /\ openPopupFeature = NULL
    /\ wardFetch = "pending"
    /\ schoolLoads = << "pending" >>
    /\ treeLoads = << >>
    /\ demLoads = << >>
    /\ keyed = {}
    /\ markersRef = << >>
    /\ popups = {}
    /\ treeGroupRef = NULL
    /\ geoRasterLayersRef = << >>
    /\ mapLayers = EmptyBag
    /\ query = << >>
    /\ results = << >>
    /\ crashed = FALSE
    /\ pixel = NULL
    /\ wardErrors = 0
    /\ viewport = [ kind |-> "setView", zoom |-> 12,
                    center |-> [ lat |-> << "initialCenter" >>, lng |-> << "initialCenter" >> ] ]
    /\ toggles = 0
    /\ visible = FALSE
    /\ newBookmarkName = << >>
    /\ reads = 1

\* the first load of the page in a browser whose store has no item
Init ==
    /\ AppInit
    /\ session = 1
    /\ bookmarks = Mounted(NULL).bookmarks
    /\ mapBookmarks = Mounted(NULL).mapBookmarks

bookmarkVars == << bookmarks, mapBookmarks, visible, newBookmarkName, reads, session >>
overlayVars == << treeGroupRef, geoRasterLayersRef, mapLayers >>
searchVars == << query, results >>
loadVars == << wardFetch, schoolLoads, treeLoads, demLoads >>

\* a re-render of App with the new state, without a change of the DEM layer
ReRender(vis, wd, sd, td, sel) ==
    IF Throws(sel) THEN Unmount
    ELSE /\ Commit(vis, wd, sd, sel)
         /\ TreeLayerEffect(vis, td)
         /\ UNCHANGED geoRasterLayersRef

-----------------------------------------------------------------------------
(* Ward boundaries: the effect with [] of App *)

\* fetch(..).then(res => res.json()).then(setWardData), for the features that the
\* file ward-boundaries.geojson holds
WardFetchDelivers(file) ==
    /\ ~ crashed
    /\ wardFetch = "pending"
    /\ wardFetch' = "ok"
    /\ wardData' = FeatureCollection(0, file)
    /\ ReRender(layersVisibility, wardData', schoolData, treeData, openPopupFeature)
    /\ UNCHANGED << bookmarkVars, wardErrors, viewport, pixel, toggles, layersVisibility, schoolData, treeData, openPopupFeature,
                    schoolLoads, treeLoads, demLoads, searchVars >>

WardFetchOk == WardFetchDelivers(WardFile)

\* mutant: the catch block logs and fetches again
WardFetchFailedRetries ==
    /\ ~ crashed
    /\ wardFetch = "pending"
    /\ wardErrors < 2
    /\ wardFetch' = "pending"
    /\ wardErrors' = wardErrors + 1
    /\ UNCHANGED << bookmarkVars, viewport, pixel, toggles, layersVisibility, wardData, schoolData, treeData,
                    openPopupFeature, schoolLoads, treeLoads, demLoads, keyed, markersRef,
                    popups, overlayVars, searchVars, crashed >>

\* .catch(err => console.error("Error loading ward data", err))
WardFetchFailed ==
    /\ ~ crashed
    /\ wardFetch = "pending"
    /\ wardFetch' = "failed"
    /\ wardErrors' = wardErrors + 1
    /\ UNCHANGED << bookmarkVars, viewport, pixel, toggles, layersVisibility, wardData, schoolData, treeData, openPopupFeature,
                    schoolLoads, treeLoads, demLoads, keyed, markersRef, popups,
                    overlayVars, searchVars, crashed >>

-----------------------------------------------------------------------------
(* Schools: fetchSchools of the effect on [layersVisibility.schools] *)

\* setSchoolData(osmtogeojson(await res.json()))
SchoolQueryOk(k) ==
    /\ ~ crashed
    /\ schoolLoads[k] = "pending"
    /\ schoolLoads' = [ schoolLoads EXCEPT ![k] = "ok" ]
    /\ schoolData' = FeatureCollection(k, SchoolResponse(k))
    /\ ReRender(layersVisibility, wardData, schoolData', treeData, openPopupFeature)
    /\ UNCHANGED << bookmarkVars, wardErrors, viewport, pixel, toggles, layersVisibility, wardData, treeData, openPopupFeature,
                    wardFetch, treeLoads, demLoads, searchVars >>

\* catch (error) { console.error("Error fetching schools:", error) }
SchoolQueryFailed(k) ==
    /\ ~ crashed
    /\ schoolLoads[k] = "pending"
    /\ schoolLoads' = [ schoolLoads EXCEPT ![k] = "failed" ]
    /\ UNCHANGED << bookmarkVars, wardErrors, viewport, pixel, toggles, layersVisibility, wardData, schoolData, treeData, openPopupFeature,
                    wardFetch, treeLoads, demLoads, keyed, markersRef, popups,
                    overlayVars, searchVars, crashed >>

-----------------------------------------------------------------------------
(* Trees: loadTreeDataParts of the effect on [layersVisibility.trees] *)

\* await Promise.all(fetchPromises); setTreeData({type, features: allFeatures}):
\* runs when the last of the six chains of attempt a has settled
TreePartSettles(a, load) ==
    /\ ~ crashed
    /\ IF Settled(load)
       THEN /\ treeLoads' = [ treeLoads EXCEPT ![a] = [ load EXCEPT !.sets = @ + 1 ] ]
            /\ treeData' = FeatureCollection(a, load.allFeatures)
            /\ ReRender(layersVisibility, wardData, schoolData, treeData', openPopupFeature)
       ELSE /\ treeLoads' = [ treeLoads EXCEPT ![a] = load ]
            /\ UNCHANGED << treeData, keyed, markersRef, popups, overlayVars, crashed >>
    /\ UNCHANGED << bookmarkVars, wardErrors, viewport, pixel, toggles, layersVisibility, wardData, schoolData, openPopupFeature,
                    wardFetch, schoolLoads, demLoads, searchVars >>

\* mutant: the features of a part are pushed twice (a retried part)
TreePartMergedTwice(a, i) ==
    /\ a \in DOMAIN treeLoads
    /\ treeLoads[a].parts[i] = "pending"
    /\ TreePartSettles(a, [ treeLoads[a] EXCEPT
                              !.parts[i] = "merged",
                              !.allFeatures = @ (+) PartFeatures(i) (+) PartFeatures(i) ])

\* .then(data => allFeatures.push(...data.features)) for a valid FeatureCollection
TreePartMerged(a, i) ==
    /\ a \in DOMAIN treeLoads
    /\ treeLoads[a].parts[i] = "pending"
    /\ TreePartSettles(a, [ treeLoads[a] EXCEPT
                              !.parts[i] = "merged",
                              !.allFeatures = @ (+) PartFeatures(i) ])

\* the part has an invalid structure (console.warn), or its fetch failed, answered
\* with an HTTP error or did not parse (.catch: console.error)
TreePartSkipped(a, i) ==
    /\ a \in DOMAIN treeLoads
    /\ treeLoads[a].parts[i] = "pending"
    /\ TreePartSettles(a, [ treeLoads[a] EXCEPT !.parts[i] = "skipped" ])

-----------------------------------------------------------------------------
(* DEM: loadGeoRasters of DEMLayer's effect on [visible, map, demFiles] *)

\* the for loop of attempt a has gone past one tile; after the last tile the
\* raster layers are added to the map and pushed to geoRasterLayersRef.current
DemTileSettles(a, load) ==
    /\ ~ crashed
    /\ demLoads' = [ demLoads EXCEPT ![a] = load ]
    /\ IF load.next > NumTiles
       THEN /\ mapLayers' = mapLayers (+) SeqToBag(RasterLayers(a, load))
            /\ geoRasterLayersRef' = geoRasterLayersRef \o RasterLayers(a, load)
       ELSE UNCHANGED << mapLayers, geoRasterLayersRef >>
    /\ UNCHANGED << bookmarkVars, wardErrors, viewport, pixel, toggles, layersVisibility, wardData, schoolData, treeData, openPopupFeature,
                    wardFetch, schoolLoads, treeLoads, keyed, markersRef, popups,
                    treeGroupRef, searchVars, crashed >>

\* the tile was fetched and parsed: its declared range is collected when it is a
\* non-empty array of numbers
DemTileLoaded(a, georaster) ==
    /\ a \in DOMAIN demLoads
    /\ demLoads[a].next <= NumTiles
    /\ DemTileSettles(a,
         [ next |-> demLoads[a].next + 1,
           loadedGeorasters |->
               Append(demLoads[a].loadedGeorasters,
                      [ name |-> demLoads[a].next, georaster |-> georaster ]),
           allMins |-> IF Len(georaster.mins) > 0
                       THEN Append(demLoads[a].allMins, georaster.mins[1])
                       ELSE demLoads[a].allMins,
           allMaxs |-> IF Len(georaster.maxs) > 0
                       THEN Append(demLoads[a].allMaxs, georaster.maxs[1])
                       ELSE demLoads[a].allMaxs ])

\* mutant: the catch block of a tile removes every overlay from the map
DemTileFailedClearsMap(a) ==
    /\ a \in DOMAIN demLoads
    /\ demLoads[a].next <= NumTiles
    /\ ~ crashed
    /\ demLoads' = [ demLoads EXCEPT ![a].next = @ + 1 ]
    /\ mapLayers' = EmptyBag
    /\ geoRasterLayersRef' = << >>
    /\ UNCHANGED << bookmarkVars, wardErrors, viewport, pixel, toggles, layersVisibility, wardData, schoolData, treeData,
                    openPopupFeature, wardFetch, schoolLoads, treeLoads, keyed,
                    markersRef, popups, treeGroupRef, searchVars, crashed >>

\* the fetch, the HTTP status or the parse of the tile failed: catch, console.error
DemTileFailed(a) ==
    /\ a \in DOMAIN demLoads
    /\ demLoads[a].next <= NumTiles
    /\ DemTileSettles(a, [ demLoads[a] EXCEPT !.next = @ + 1 ])

\* a raster layer on the map draws a pixel: it calls its colour function
drawPixel(layer, pixelValue) ==
    /\ ~ crashed
    /\ BagIn(layer, mapLayers)
    /\ layer.kind = "raster"
    /\ pixel' = [ load |-> layer.load, tile |-> layer.tile, value |-> pixelValue,
                  globalMin |-> layer.globalMin, globalMax |-> layer.globalMax,
                  colour |-> pixelValuesToColorFn(pixelValue, layer.globalMin,
                                                  layer.globalMax) ]
    /\ UNCHANGED << bookmarkVars, wardErrors, viewport, toggles, layersVisibility, wardData, schoolData, treeData,
                    openPopupFeature, loadVars, keyed, markersRef, popups, overlayVars,
                    searchVars, crashed >>

-----------------------------------------------------------------------------
(* toggleLayer *)

\* mutant: the ward effect depends on the visibility of the ward layer
WardEffectDepsOnWard == {"ward"}

\* the layers of layersVisibility on which each loading effect depends
TreeEffectDeps == {"trees"}
WardEffectDeps == {}
SchoolEffectDeps == {"schools"}
DemEffectDeps == {"dem"}

\* mutant: the updater sets the flag instead of negating it
ToggledOn(prev, layerId) == [ prev EXCEPT ![layerId] = TRUE ]

\* the updater of setLayersVisibility: { ...prev, [layerId]: !prev[layerId] }
Toggled(prev, layerId) == [ prev EXCEPT ![layerId] = ~ @ ]

toggleLayer(layerId) ==
    LET vis == Toggled(layersVisibility, layerId)
        on == vis[layerId]
        sel == IF /\ ~ ToggleThrows(layerId, openPopupFeature, keyed)
                  /\ ToggleClears(layerId, openPopupFeature, keyed)
               THEN NULL ELSE openPopupFeature
    IN  /\ ~ crashed
        /\ toggles < MaxToggles
        /\ toggles' = toggles + 1
        /\ layersVisibility' = vis
        /\ openPopupFeature' = sel
        /\ IF Throws(sel)
           THEN /\ Unmount
                /\ UNCHANGED << schoolData, treeData, wardFetch, schoolLoads, treeLoads,
                                demLoads >>
           ELSE \* the effects of App whose dependencies have changed
                /\ wardFetch' = IF layerId \in WardEffectDeps THEN "pending" ELSE wardFetch
                /\ schoolData' = IF layerId \in SchoolEffectDeps /\ ~ vis["schools"]
                                 THEN NULL ELSE schoolData
                /\ schoolLoads' = IF layerId \in SchoolEffectDeps /\ vis["schools"]
                                  THEN Append(schoolLoads, "pending") ELSE schoolLoads
                /\ treeData' = IF layerId \in TreeEffectDeps /\ ~ vis["trees"]
                               THEN NULL ELSE treeData
                /\ treeLoads' = IF layerId \in TreeEffectDeps /\ vis["trees"]
                                THEN Append(treeLoads, NewTreeLoad) ELSE treeLoads
                /\ Commit(vis, wardData, schoolData', sel)
                \* the effect of DEMLayer: clear the raster layers, then load if visible
                /\ demLoads' = IF layerId \in DemEffectDeps /\ vis["dem"]
                               THEN Append(demLoads, NewDemLoad) ELSE demLoads
                /\ IF layerId \in DemEffectDeps
                   THEN /\ mapLayers' = RemoveLayers(mapLayers, geoRasterLayersRef)
                        /\ geoRasterLayersRef' = << >>
                        /\ UNCHANGED treeGroupRef
                   ELSE /\ TreeLayerEffect(vis, treeData')
                        /\ UNCHANGED geoRasterLayersRef
        /\ UNCHANGED << wardData, searchVars, pixel, viewport, wardErrors, bookmarkVars >>

-----------------------------------------------------------------------------
(* CustomSearch *)

\* onChange of the input: setQuery, then the effect on [query]
setQuery(q) ==
    /\ ~ crashed
    /\ q # query
    /\ query' = q
    /\ results' = Search(q, searchableItems(wardData, schoolData))
    /\ UNCHANGED << bookmarkVars, wardErrors, viewport, pixel, toggles, layersVisibility, wardData, schoolData, treeData, openPopupFeature,
                    loadVars, keyed, markersRef, popups, overlayVars, crashed >>

\* mutant: an item without bounds leaves the map where it is
SelectViewFitOnly(item, view) ==
    IF item.bounds # NULL
    THEN [ kind |-> "fitBounds", bounds |-> item.bounds, maxZoom |-> 15 ]
    ELSE view

\* map.fitBounds(item.bounds, { maxZoom: 15 }) or map.setView(item.latlng, 17)
SelectView(item, view) ==
    IF item.bounds # NULL
    THEN [ kind |-> "fitBounds", bounds |-> item.bounds, maxZoom |-> 15 ]
    ELSE IF item.latlng # NULL
         THEN [ kind |-> "setView", center |-> item.latlng, zoom |-> 17 ]
         ELSE view

\* click on a result: onSelect(item)
onSelect(item) ==
    /\ ~ crashed
    /\ item \in Range(results)
    /\ query' = << >>
    /\ results' = << >>
    /\ openPopupFeature' = item.feature
    /\ IF item.feature = openPopupFeature
       THEN UNCHANGED << keyed, markersRef, popups, overlayVars, crashed >>
       ELSE ReRender(layersVisibility, wardData, schoolData, treeData, item.feature)
    /\ viewport' = SelectView(item, viewport)
    /\ UNCHANGED << bookmarkVars, wardErrors, pixel, toggles, layersVisibility, wardData, schoolData, treeData,
                    loadVars >>

-----------------------------------------------------------------------------
(* Direct interaction with the map *)

\* click on a ward polygon: layer.bindPopup(popupContent).openPopup(e.latlng)
clickWard(feature) ==
    /\ ~ crashed
    /\ feature \in WardDrawn(layersVisibility, wardData)
    /\ popups' = OpenPopup(popups, feature)
    /\ UNCHANGED << bookmarkVars, wardErrors, viewport, pixel, toggles, layersVisibility, wardData, schoolData, treeData, openPopupFeature,
                    loadVars, keyed, markersRef, overlayVars, searchVars, crashed >>

\* click on a school marker: Leaflet opens the Popup bound to the Marker
clickMarker(feature) ==
    /\ ~ crashed
    /\ feature \in SchoolDrawn(layersVisibility, schoolData)
    /\ popups' = OpenPopup(popups, feature)
    /\ UNCHANGED << bookmarkVars, wardErrors, viewport, pixel, toggles, layersVisibility, wardData, schoolData, treeData, openPopupFeature,
                    loadVars, keyed, markersRef, overlayVars, searchVars, crashed >>

-----------------------------------------------------------------------------
(* The bookmarks widget *)

\* the state of App and of its layers that the widget does not touch
appData == << layersVisibility, wardData, schoolData, treeData, openPopupFeature, loadVars,
              searchVars, pixel, wardErrors, toggles >>
renderVars == << keyed, markersRef, popups, overlayVars, crashed >>

\* click on the control of the widget: setVisible(v => !v) and the render of the list
toggleVisible ==
    /\ ~ crashed
    /\ visible' = ~ visible
    /\ IF ~ visible /\ RenderThrows(bookmarks) THEN Unmount ELSE UNCHANGED renderVars
    /\ UNCHANGED << bookmarks, mapBookmarks, newBookmarkName, reads, session, viewport, appData >>

\* typing in the name input: setNewBookmarkName(e.target.value)
setNewBookmarkName(name) ==
    /\ ~ crashed
    /\ visible
    /\ newBookmarkName' = name
    /\ UNCHANGED << bookmarks, mapBookmarks, visible, reads, session, viewport, appData,
                    renderVars >>

\* click on Save, the map being at center and zoom and the clock at id
saveCurrentViewAsBookmark(center, zoom, id) ==
    /\ ~ crashed
    /\ visible
    /\ Len(bookmarks.items) < MaxBookmarks
    /\ IF trim(newBookmarkName) = << >>
       THEN UNCHANGED << bookmarks, mapBookmarks, visible, newBookmarkName >>
       ELSE LET newBookmark == Bookmark(id, trim(newBookmarkName), center, zoom)
                next == Array(Append(bookmarks.items, newBookmark))
            IN  /\ bookmarks' = next
                /\ newBookmarkName' = << >>
                /\ visible' = FALSE
                /\ mapBookmarks' = SaveEffect(mapBookmarks, next)
    /\ UNCHANGED << reads, session, viewport, appData, renderVars >>

\* click on the name of a bookmark of the list: map.setView(bm.center, bm.zoom)
goToBookmark(bm) ==
    /\ ~ crashed
    /\ visible
    /\ bm \in Range(bookmarks.items)
    /\ viewport' = [ kind |-> "setView", center |-> bm.center, zoom |-> bm.zoom ]
    /\ visible' = FALSE
    /\ UNCHANGED << bookmarks, mapBookmarks, newBookmarkName, reads, session, appData,
                    renderVars >>

\* click on the delete button of a bookmark of the list
deleteBookmark(id) ==
    /\ ~ crashed
    /\ visible
    /\ \E bm \in Range(bookmarks.items) : bm.id = id
    /\ LET next == Array(SelectSeq(bookmarks.items, LAMBDA bm : bm.id # id))
       IN  /\ bookmarks' = next
           /\ mapBookmarks' = SaveEffect(mapBookmarks, next)
    /\ UNCHANGED << visible, newBookmarkName, reads, session, viewport, appData, renderVars >>

\* the page is loaded again: the state in memory is gone, App and the widget mount
Reload ==
    /\ session < MaxSessions
    /\ session' = session + 1
    /\ layersVisibility' = [ ward |-> FALSE, schools |-> TRUE, trees |-> FALSE, dem |-> FALSE ]
    /\ wardData' = NULL
    /\ schoolData' = NULL
    /\ treeData' = NULL
    /\ openPopupFeature' = NULL
    /\ wardFetch' = "pending"
    /\ schoolLoads' = << "pending" >>
    /\ treeLoads' = << >>
    /\ demLoads' = << >>
    /\ keyed' = {}
    /\ markersRef' = << >>
    /\ popups' = {}
    /\ treeGroupRef' = NULL
    /\ geoRasterLayersRef' = << >>
    /\ mapLayers' = EmptyBag
    /\ query' = << >>
    /\ results' = << >>
    /\ crashed' = FALSE
    /\ pixel' = NULL
    /\ wardErrors' = 0
    /\ viewport' = [ kind |-> "setView", zoom |-> 12,
                    center |-> [ lat |-> << "initialCenter" >>, lng |-> << "initialCenter" >> ] ]
    /\ toggles' = 0
    /\ visible' = FALSE
    /\ newBookmarkName' = << >>
    /\ reads' = 1
    /\ bookmarks' = Mounted(mapBookmarks).bookmarks
    /\ mapBookmarks' = Mounted(mapBookmarks).mapBookmarks

-----------------------------------------------------------------------------
(* Specifications *)

\* the texts typed into the search box
Queries == { << "a" >>, << "A", "B" >> }

\* the georasters the tile files parse to
Georasters == { Georaster(<< 0 >>, << 100 >>) }

\* every ward and school feature a run can hold
AllFeatures ==
    Range(WardFile) \cup UNION { Range(SchoolResponse(k)) : k \in 1 .. MaxToggles + 1 }

AllItems == { WardItem(f) : f \in Range(WardFile) }
            \cup { SchoolItem(f) : f \in AllFeatures \ Range(WardFile) }

\* Selection: the loads of wards and schools, the toggles, search, selection and
\* clicks on the map (the tree parts and DEM tiles stay in flight)
NextSelect ==
    \/ WardFetchOk
    \/ WardFetchFailed
    \/ \E k \in DOMAIN schoolLoads : SchoolQueryOk(k)
    \/ \E k \in DOMAIN schoolLoads : SchoolQueryFailed(k)
    \/ \E layerId \in Layers : toggleLayer(layerId)
    \/ \E q \in Queries \cup { << >> } : setQuery(q)
    \/ \E item \in AllItems : onSelect(item)
    \/ \E feature \in AllFeatures : clickWard(feature)
    \/ \E feature \in AllFeatures : clickMarker(feature)

SpecSelect == Init /\ [][NextSelect]_vars

\* the lowest part of attempt a that is still in flight (NumParts if none is)
FirstPending(a) ==
    IF Settled(treeLoads[a]) THEN NumParts
    ELSE CHOOSE i \in 1 .. NumParts :
             /\ treeLoads[a].parts[i] = "pending"
             /\ \A j \in 1 .. i - 1 : treeLoads[a].parts[j] # "pending"

\* no tree load is in flight
TreesIdle == \A a \in DOMAIN treeLoads : Settled(treeLoads[a])

\* Loading: the loads of the four layers and the toggles; the parts of a tree load
\* are answered in the order of their numbers
NextLoad ==
    \/ WardFetchOk
    \/ WardFetchFailed
    \/ \E k \in DOMAIN schoolLoads : SchoolQueryOk(k)
    \/ \E k \in DOMAIN schoolLoads : SchoolQueryFailed(k)
    \/ \E a \in DOMAIN treeLoads : TreePartMerged(a, FirstPending(a))
    \/ \E a \in DOMAIN treeLoads : TreePartSkipped(a, FirstPending(a))
    \/ \E a \in DOMAIN demLoads, g \in Georasters : DemTileLoaded(a, g)
    \/ \E a \in DOMAIN demLoads : DemTileFailed(a)
    \/ \E layerId \in Layers : toggles < MaxLoadToggles /\ toggleLayer(layerId)

SpecLoad == Init /\ [][NextLoad]_vars

\* Trees: the toggles of the tree layer and the parts of its loads, answered in any
\* order; the layer is shown again only after the previous load has settled
NextTrees ==
    \/ \E a \in DOMAIN treeLoads, i \in 1 .. NumParts : TreePartMerged(a, i)
    \/ \E a \in DOMAIN treeLoads, i \in 1 .. NumParts : TreePartSkipped(a, i)
    \/ (layersVisibility["trees"] \/ TreesIdle) /\ toggleLayer("trees")

SpecTrees == Init /\ [][NextTrees]_vars

\* the georasters the tile files parse to in the runs of SpecDem: two with a full
\* declared range, one without usable maxs and one without usable mins
DemGeorasters ==
    { Georaster(<< 0 >>, << 100 >>), Georaster(<< 50 >>, << 200 >>),
      Georaster(<< 50 >>, << >>), Georaster(<< >>, << 10 >>) }

\* Elevation: the toggles of the DEM layer and the tiles of its loads
NextDem ==
    \/ \E a \in DOMAIN demLoads, g \in DemGeorasters : DemTileLoaded(a, g)
    \/ \E a \in DOMAIN demLoads : DemTileFailed(a)
    \/ toggleLayer("dem")

SpecDem == Init /\ [][NextDem]_vars

\* the georasters of the runs of SpecColour: a full range, a range of width 0, and
\* the two halves of an inverted range
ColourGeorasters ==
    { Georaster(<< 0 >>, << 100 >>), Georaster(<< 5 >>, << 5 >>),
      Georaster(<< 50 >>, << >>), Georaster(<< >>, << 10 >>) }

\* the values of the pixels of a tile
PixelValues ==
    { Number(v) : v \in { SentinelLow - 1, SentinelLow, -1, 0, 5, 6, 7, 33, 50, 99, 100,
                          101, SentinelHigh, SentinelHigh + 1 } } \cup NotNumbers

\* Colour: one showing of the DEM layer, the tiles of its load, and the pixels that
\* the raster layers draw
NextColour ==
    \/ \E a \in DOMAIN demLoads, g \in ColourGeorasters : DemTileLoaded(a, g)
    \/ \E a \in DOMAIN demLoads : DemTileFailed(a)
    \/ toggles < MaxColourToggles /\ toggleLayer("dem")
    \/ \E layer \in BagToSet(mapLayers), v \in PixelValues : drawPixel(layer, v)

SpecColour == Init /\ [][NextColour]_vars

\* a ward file with more wards than the result list shows: the first has the empty
\* name, the others are named "Ab" and "ba" in turn
LargeWardFile ==
    [ i \in 1 .. MaxWards |->
        WardFeature(i, IF i = 1 THEN << >>
                       ELSE IF i % 2 = 0 THEN << "A", "b" >> ELSE << "b", "a" >>) ]

WardFiles == { WardFile, LargeWardFile }

\* the texts typed into the search box in the runs of SpecSearch
SearchQueries ==
    { << "a" >>, << "A" >>, << "a", "b" >>, << "A", "B" >>, << " " >>, << " ", " " >>,
      << "z" >> }

SearchItems ==
    { WardItem(f) : f \in Range(WardFile) \cup Range(LargeWardFile) }
    \cup { SchoolItem(f) : f \in Range(SchoolResponse(1)) }

\* Search: the loads of wards and schools, the typing of a query and the choice of
\* a result
NextSearch ==
    \/ \E file \in WardFiles : WardFetchDelivers(file)
    \/ SchoolQueryOk(1)
    \/ \E q \in SearchQueries \cup { << >> } : setQuery(q)
    \/ \E item \in SearchItems : onSelect(item)

SpecSearch == Init /\ [][NextSearch]_vars

\* the texts typed into the search box in the runs of SpecTreeSearch
TreeQueries == { << "e", "e" >>, << "a" >> }

\* Search with trees: the load of the wards, the toggles of the tree layer, the
\* parts of its loads in the order of their numbers, and the typing of a query
NextTreeSearch ==
    \/ WardFetchOk
    \/ \E a \in DOMAIN treeLoads : TreePartMerged(a, FirstPending(a))
    \/ \E a \in DOMAIN treeLoads : TreePartSkipped(a, FirstPending(a))
    \/ toggles < MaxLoadToggles /\ toggleLayer("trees")
    \/ \E q \in TreeQueries \cup { << >> } : setQuery(q)

SpecTreeSearch == Init /\ [][NextTreeSearch]_vars

\* a bookmark that an earlier visit has stored
StoredBookmark == Bookmark(1, << "a" >>, << Number(12), Number(77) >>, Number(12))

\* what the store holds when the page is loaded for the first time in a run
StartupStores ==
    { NULL, EmptyText, NotJSON, JSONText(NULL), JSONText(Object),
      JSONText(Array(<< >>)), JSONText(Array(<< NULL >>)),
      JSONText(Array(<< StoredBookmark >>)) }

\* the texts typed into the name input
Names == { << " " >>, << " ", "a" >>, << "b", " " >> }
\* map.getCenter() and map.getZoom()
Centers == { << Number(12), Number(77) >>, << Number(13), Number(78) >> }
Zooms == { Number(12), Number(15) }
\* Date.now(): the wall clock, equal for two clicks of the same millisecond
Ids == { 1, 2 }

AllBookmarks ==
    { Bookmark(id, trim(name), center, zoom) :
        id \in Ids, name \in Names, center \in Centers, zoom \in Zooms }

InitBookmarks ==
    /\ AppInit
    /\ session = 1
    /\ \E store \in StartupStores :
          /\ bookmarks = Mounted(store).bookmarks
          /\ mapBookmarks = Mounted(store).mapBookmarks

\* Bookmarks: the widget over every startup content of the store, with reloads of
\* the page
NextBookmarks ==
    \/ toggleVisible
    \/ \E name \in Names : setNewBookmarkName(name)
    \/ \E center \in Centers, zoom \in Zooms, id \in Ids :
          saveCurrentViewAsBookmark(center, zoom, id)
    \/ \E bm \in AllBookmarks : goToBookmark(bm)
    \/ \E id \in Ids : deleteBookmark(id)
    \/ Reload

SpecBookmarks == InitBookmarks /\ [][NextBookmarks]_vars

Next ==
    \/ NextSelect \/ NextLoad \/ NextDem \/ NextColour \/ NextSearch \/ NextTreeSearch
    \/ NextBookmarks

Spec == Init /\ [][Next]_vars

-----------------------------------------------------------------------------
(* Claims *)

\* the layer whose dataset holds a feature
Owner(feature) == IF feature.kind = "ward" THEN "ward" ELSE "schools"

\* the features that have a polygon or a marker on the map
Drawn == WardDrawn(layersVisibility, wardData) \cup SchoolDrawn(layersVisibility, schoolData)

\* C1: when a search result is selected and toggleLayer hides the layer that owns
\* it, the selection is null afterwards (and no error has been raised).
C1_HideClearsSelection ==
    [][ \A layerId \in {"ward", "schools"} :
          ( /\ openPopupFeature # NULL
            /\ Owner(openPopupFeature) = layerId
            /\ layersVisibility[layerId]
            /\ ~ layersVisibility'[layerId] )
          => (openPopupFeature' = NULL /\ ~ crashed') ]_vars

\* C2: at most one popup is open in every state, and when B is selected while A is,
\* and B is drawn on the map, the popup open afterwards is B's.
C2_PopupBelongsToNewSelection ==
    [][ /\ Cardinality(popups') <= 1
        /\ ( /\ openPopupFeature # NULL
             /\ openPopupFeature' # NULL
             /\ openPopupFeature' # openPopupFeature
             /\ openPopupFeature' \in Drawn )
           => (~ crashed' /\ popups' = {openPopupFeature'}) ]_vars

\* C3: whenever a feature is selected, the renderer of its layer, and no other,
\* receives it as openPopupFeature.
C3_SelectionRoutedToOwner ==
    openPopupFeature # NULL =>
        /\ ~ crashed
        /\ WardProp(openPopupFeature) =
               (IF Owner(openPopupFeature) = "ward" THEN openPopupFeature ELSE NULL)
        /\ SchoolProp(openPopupFeature, {}) =
               (IF Owner(openPopupFeature) = "schools" THEN openPopupFeature ELSE NULL)

\* C4: no sequence of loads, toggles, searches and selections raises an uncaught error.
C4_NoUncaughtError == ~ crashed

\* C5: a hidden tree or school layer has no dataset.
C5_HiddenLayerHasNoData ==
    /\ ~ layersVisibility["trees"] => treeData = NULL
    /\ ~ layersVisibility["schools"] => schoolData = NULL

PendingParts(load) == { i \in 1 .. NumParts : load.parts[i] = "pending" }
MergedParts(load) == { i \in 1 .. NumParts : load.parts[i] = "merged" }
SkippedParts(load) == { i \in 1 .. NumParts : load.parts[i] = "skipped" }

\* C6: a tree load calls setTreeData exactly once, when all six part fetches have
\* settled: never while one of them is pending, and treeData never holds the
\* result of a load of which a part is pending.
C6_SetOnceAfterAllSettled ==
    \A a \in DOMAIN treeLoads :
        /\ treeLoads[a].sets = (IF PendingParts(treeLoads[a]) = {} THEN 1 ELSE 0)
        /\ (treeData # NULL /\ treeData.load = a) => PendingParts(treeLoads[a]) = {}

\* a load has completed with parts merged and parts skipped, the last one settled
\* not being part 6, and treeData holds its result
C6_Witness ==
    \E a \in DOMAIN treeLoads :
        /\ treeData # NULL /\ treeData.load = a
        /\ treeLoads[a].sets = 1
        /\ MergedParts(treeLoads[a]) # {}
        /\ SkippedParts(treeLoads[a]) # {}

\* the features of the parts of a load that were merged, each once
ExpectedFeatures(load) ==
    SetToBag(UNION { BagToSet(PartFeatures(i)) : i \in MergedParts(load) })

\* C7: when all parts of a tree load have settled, the merged collection holds
\* exactly the features of the parts that did not fail, each once; the load has
\* delivered it (setTreeData was called) whatever parts failed, and it is the
\* dataset of the layer as long as the layer stays shown.
C7_MergedExactlySucceeded ==
    \A a \in DOMAIN treeLoads :
        PendingParts(treeLoads[a]) = {} =>
            /\ treeLoads[a].allFeatures = ExpectedFeatures(treeLoads[a])
            /\ treeLoads[a].sets = 1
            /\ (a = Len(treeLoads) /\ layersVisibility["trees"]) =>
                   treeData = FeatureCollection(a, ExpectedFeatures(treeLoads[a]))

\* part 3 of 6 has failed: the dataset holds the features of parts 1, 2, 4, 5, 6
C7_Witness ==
    \E a \in DOMAIN treeLoads :
        /\ SkippedParts(treeLoads[a]) = {3}
        /\ MergedParts(treeLoads[a]) = (1 .. NumParts) \ {3}
        /\ treeData = FeatureCollection(a, ExpectedFeatures(treeLoads[a]))
        /\ BagCardinality(treeData.features) = 6

\* what C8 calls the dataset, the visibility and the rendered overlays of a layer
WardLayerState ==
    << wardData, wardFetch, layersVisibility["ward"],
       WardDrawn(layersVisibility, wardData) >>
SchoolLayerState ==
    << schoolData, schoolLoads, layersVisibility["schools"],
       SchoolDrawn(layersVisibility, schoolData), markersRef >>
TreeLayerState ==
    << treeData, treeLoads, layersVisibility["trees"], treeGroupRef,
       [ x \in { y \in DOMAIN mapLayers : y.kind = "treeGroup" } |-> mapLayers[x] ] >>
DemLayerState ==
    << demLoads, layersVisibility["dem"], geoRasterLayersRef,
       [ x \in { y \in DOMAIN mapLayers : y.kind = "raster" } |-> mapLayers[x] ] >>

WardFails == wardFetch = "pending" /\ wardFetch' = "failed"
SchoolFails ==
    \E k \in DOMAIN schoolLoads : schoolLoads[k] = "pending" /\ schoolLoads'[k] = "failed"
TreePartFails ==
    \E a \in DOMAIN treeLoads : \E i \in 1 .. NumParts :
        treeLoads[a].parts[i] = "pending" /\ treeLoads'[a].parts[i] = "skipped"
DemTileFails ==
    \E a \in DOMAIN demLoads :
        /\ demLoads'[a].next = demLoads[a].next + 1
        /\ demLoads'[a].loadedGeorasters = demLoads[a].loadedGeorasters

\* C8: a step in which a load of one layer fails (the ward fetch, a school query,
\* a tree part, a DEM tile) leaves the dataset, the visibility and the overlays of
\* every other layer, and the selection, as they were; and it raises no error.
C8_FailureLeavesOtherLayers ==
    [][ /\ WardFails =>
               UNCHANGED << SchoolLayerState, TreeLayerState, DemLayerState, crashed >>
        /\ SchoolFails =>
               UNCHANGED << WardLayerState, TreeLayerState, DemLayerState, crashed >>
        /\ TreePartFails =>
               UNCHANGED << WardLayerState, SchoolLayerState, DemLayerState, crashed >>
        /\ DemTileFails =>
               UNCHANGED << WardLayerState, SchoolLayerState, TreeLayerState, crashed >>
      ]_vars

\* the ward fetch and a DEM tile have failed, a tree part has been skipped, and the
\* schools and the trees are on the map
C8_Witness ==
    /\ wardFetch = "failed"
    /\ schoolData # NULL /\ layersVisibility["schools"]
    /\ treeGroupRef # NULL /\ BagCardinality(mapLayers) > 0
    /\ \E a \in DOMAIN treeLoads : SkippedParts(treeLoads[a]) # {}
    /\ \E a \in DOMAIN demLoads :
           demLoads[a].next > 1 /\ demLoads[a].loadedGeorasters = << >>

\* C9: every transition of the schools (trees) layer from hidden to shown issues
\* exactly one query (one load of six parts) and nothing else issues one; and when
\* the query issued by the last such transition has failed, schoolData is null
\* until the layer is toggled again.
C9_OneAttemptPerShowNoRetry ==
    [][ /\ Len(schoolLoads') = Len(schoolLoads)
               + (IF ~ layersVisibility["schools"] /\ layersVisibility'["schools"]
                  THEN 1 ELSE 0)
        /\ Len(treeLoads') = Len(treeLoads)
               + (IF ~ layersVisibility["trees"] /\ layersVisibility'["trees"]
                  THEN 1 ELSE 0)
        /\ ( /\ layersVisibility'["schools"]
             /\ schoolLoads'[Len(schoolLoads')] = "failed" )
           => schoolData' = NULL
      ]_vars

-----------------------------------------------------------------------------
(* Claims about the elevation layer *)

\* the raster layers on the map
RasterOnMap == { layer \in BagToSet(mapLayers) : layer.kind = "raster" }

\* the minimums and maximums that the successfully loaded tiles of a load declare
DeclaredMins(load) ==
    { load.loadedGeorasters[i].georaster.mins[1] :
        i \in { j \in DOMAIN load.loadedGeorasters :
                  Len(load.loadedGeorasters[j].georaster.mins) > 0 } }
DeclaredMaxs(load) ==
    { load.loadedGeorasters[i].georaster.maxs[1] :
        i \in { j \in DOMAIN load.loadedGeorasters :
                  Len(load.loadedGeorasters[j].georaster.maxs) > 0 } }

\* C11: every raster layer on the map belongs to a load all of whose tiles have
\* settled; its globalMin is the least minimum and its globalMax the greatest
\* maximum declared by the tiles of that load that loaded, and two layers of one
\* load give every pixel value the same colour.
C11_GlobalRangeOverLoadedTiles ==
    \A layer \in RasterOnMap :
        LET load == demLoads[layer.load]
        IN  /\ load.next > NumTiles
            /\ layer.globalMin \in DeclaredMins(load)
            /\ \A m \in DeclaredMins(load) : layer.globalMin <= m
            /\ layer.globalMax \in DeclaredMaxs(load)
            /\ \A m \in DeclaredMaxs(load) : layer.globalMax >= m
            /\ \A other \in RasterOnMap :
                   other.load = layer.load =>
                       \A v \in PixelValues :
                           pixelValuesToColorFn(v, layer.globalMin, layer.globalMax)
                           = pixelValuesToColorFn(v, other.globalMin, other.globalMax)

\* a load in which one tile failed and the two others declared [50,200] and
\* [0,100] has drawn both with the range [0,200]
C11_Witness ==
    \E a \in DOMAIN demLoads :
        /\ demLoads[a].next > NumTiles
        /\ Len(demLoads[a].loadedGeorasters) = 2
        /\ demLoads[a].loadedGeorasters[1].georaster = Georaster(<< 50 >>, << 200 >>)
        /\ demLoads[a].loadedGeorasters[2].georaster = Georaster(<< 0 >>, << 100 >>)
        /\ { layer.tile : layer \in { l \in RasterOnMap : l.load = a } }
               = { demLoads[a].loadedGeorasters[1].name, demLoads[a].loadedGeorasters[2].name }
        /\ \A layer \in RasterOnMap :
               layer.load = a => layer.globalMin = 0 /\ layer.globalMax = 200

\* C12: the range of every raster layer on the map has globalMin <= globalMax.
C12_GlobalMinAtMostGlobalMax ==
    \A layer \in RasterOnMap : layer.globalMin <= layer.globalMax

\* the for loop of load a has ended
DemFinished(a) == demLoads[a].next > NumTiles

\* load a has no usable range: no tile loaded, or none declared a minimum, or none
\* declared a maximum
NoUsableRange(load) ==
    \/ load.loadedGeorasters = << >>
    \/ DeclaredMins(load) = {}
    \/ DeclaredMaxs(load) = {}

\* C13: a load that ends without a usable range adds no overlay (the map and the
\* list of raster layers stay as they are), and every raster layer on the map
\* belongs to a finished load that has a usable range.
C13_NoRangeNoOverlay ==
    /\ [](\A layer \in RasterOnMap :
             DemFinished(layer.load) /\ ~ NoUsableRange(demLoads[layer.load]))
    /\ [][\A a \in DOMAIN demLoads :
             (~ DemFinished(a) /\ DemFinished(a)' /\ NoUsableRange(demLoads'[a]))
                 => UNCHANGED << mapLayers, geoRasterLayersRef >>]_vars

\* a load has ended with a loaded tile but without a declared maximum, and none of
\* its tiles is on the map
C13_Witness ==
    \E a \in DOMAIN demLoads :
        /\ DemFinished(a)
        /\ demLoads[a].loadedGeorasters # << >>
        /\ DeclaredMins(demLoads[a]) # {}
        /\ DeclaredMaxs(demLoads[a]) = {}
        /\ \A layer \in RasterOnMap : layer.load # a

\* the last pixel drawn had an integer value inside the band
PixelInBand ==
    /\ pixel # NULL
    /\ pixel.value.kind = "number"
    /\ pixel.value.v >= -9999
    /\ pixel.value.v <= 9999

\* C14: for an integer pixel value inside the band the colour is a grey whose level
\* is an integer of 0..255, equal to floor(255 * (v - globalMin) / r) clamped to
\* 0..255, with r = globalMax - globalMin, or 1 when that difference is 0 (the floor
\* q of n / r is stated by q * r <= n < (q + 1) * r, reversed for a negative r).
C14_GreyIsClampedFloor ==
    PixelInBand =>
        LET n == 255 * (pixel.value.v - pixel.globalMin)
            d == pixel.globalMax - pixel.globalMin
            r == IF d = 0 THEN 1 ELSE d
            shade == pixel.colour.shade
        IN  /\ pixel.colour # NULL
            /\ shade \in 0 .. 255
            /\ r > 0 => /\ shade > 0 => shade * r <= n
                        /\ shade < 255 => n < (shade + 1) * r
            /\ r < 0 => /\ shade > 0 => shade * r >= n
                        /\ shade < 255 => n > (shade + 1) * r

\* a pixel above the single elevation of a range of width 0 was drawn white
C14_Witness ==
    /\ PixelInBand
    /\ pixel.globalMax = pixel.globalMin
    /\ pixel.value.v = pixel.globalMin + 1
    /\ pixel.colour.shade = 255

\* C15: the colour function gives no pixel exactly when the value is undefined,
\* null, not a number, below -9999 or above 9999.
C15_NoPixelExactlyOutsideBand ==
    pixel # NULL => (pixel.colour = NULL <=> ~ PixelInBand)

\* a pixel of value 9999, the upper limit of the band, was given a colour
C15_Witness ==
    /\ pixel # NULL
    /\ pixel.value = Number(9999)
    /\ pixel.colour # NULL

\* C16: while the DEM layer is hidden no raster overlay is on the map, and the
\* clean-up (the removal of the listed raster layers) changes nothing when it runs
\* with no layer listed or a second time.
C16_HiddenDemHasNoOverlay ==
    /\ ~ layersVisibility["dem"] => RasterOnMap = {}
    /\ RemoveLayers(mapLayers, << >>) = mapLayers
    /\ RemoveLayers(RemoveLayers(mapLayers, geoRasterLayersRef), geoRasterLayersRef)
           = RemoveLayers(mapLayers, geoRasterLayersRef)

\* the overlays of one kind on the map, counted with their multiplicity
CountOnMap(layerSet) ==
    LET RECURSIVE Sum(_)
        Sum(S) == IF S = {} THEN 0
                  ELSE LET x == CHOOSE y \in S : TRUE
                       IN  CopiesIn(x, mapLayers) + Sum(S \ {x})
    IN  Sum(layerSet)

\* C17: the map holds at most one tree cluster group and, for each DEM tile file,
\* at most one raster overlay.
C17_NoDuplicateOverlays ==
    /\ CountOnMap({ layer \in BagToSet(mapLayers) : layer.kind = "treeGroup" }) <= 1
    /\ \A tile \in 1 .. NumTiles :
           CountOnMap({ layer \in RasterOnMap : layer.tile = tile }) <= 1

-----------------------------------------------------------------------------
(* Claims about the search *)

\* the query consists of whitespace only (the empty query included)
Blank(q) == \A i \in DOMAIN q : q[i] = " "

\* C18: whenever the query is empty or consists of whitespace only, the result
\* list is empty.
C18_BlankQueryNoResults == Blank(query) => results = << >>

\* two characters are the same letter, whatever their case
SameLetter(c, d) ==
    \/ c = d
    \/ { c, d } \in { { "A", "a" }, { "B", "b" }, { "S", "s" }, { "U", "u" }, { "W", "w" } }

\* q occurs in name when the case of the letters is ignored
ContainsIgnoringCase(name, q) ==
    \E offset \in 0 .. (Len(name) - Len(q)) :
        \A i \in 1 .. Len(q) : SameLetter(name[offset + i], q[i])

\* the queries that differ from q at most in the case of their letters
SameButCase(q) ==
    { p \in SearchQueries : Len(p) = Len(q) /\ \A i \in 1 .. Len(q) : SameLetter(p[i], q[i]) }

\* C19: when a non-empty query is typed, the result list holds, in the order of the
\* index, the items whose name contains the query when case is ignored (all of them
\* unless the list is full), and every query that differs from it only in case
\* gives the same list.
C19_CaseInsensitiveSubstring ==
    [][(query' # query /\ query' # << >>) =>
          LET items == searchableItems(wardData, schoolData)
              matches == SelectSeq(items,
                                   LAMBDA item : ContainsIgnoringCase(item.name, query'))
          IN  /\ Len(results') <= Len(matches)
              /\ results' = SubSeq(matches, 1, Len(results'))
              /\ Len(results') < Len(matches) => Len(results') >= 10
              /\ \A p \in SameButCase(query') : Search(p, items) = results']_vars

\* the query "AB" has found the ward named "Ab"
C19_Witness ==
    /\ query = << "A", "B" >>
    /\ results # << >>
    /\ results[1].name = << "A", "b" >>

\* C20: the result list never has more than 10 entries.
C20_AtMostTenResults == Len(results) <= 10

\* more than 10 wards are loaded and the list shows 10 of them
C20_Witness ==
    /\ wardData # NULL
    /\ Len(wardData.features) > 10
    /\ query = << "a" >>
    /\ Len(results) = 10

\* the features of the loaded datasets whose display name contains q, case ignored
MatchingWards(q) ==
    IF wardData = NULL THEN {}
    ELSE { f \in Range(wardData.features) : ContainsIgnoringCase(WardItem(f).name, q) }
MatchingSchools(q) ==
    IF schoolData = NULL THEN {}
    ELSE { f \in Range(schoolData.features) :
             /\ f.geomType = "Point" /\ f.ncoords > 0
             /\ ContainsIgnoringCase(SchoolItem(f).name, q) }

\* item a stands before item b in the aggregation order: wards before schools,
\* and within a dataset the order of its features
Before(a, b) ==
    \/ a.type = "Ward" /\ b.type = "School"
    \/ a.type = b.type /\ a.feature.idx < b.feature.idx

\* C21: when a non-empty query is typed, the result list holds matching items only,
\* in aggregation order (wards in dataset order, then schools in dataset order), and
\* an item is left out only if it stands after all the items shown and 10 are shown.
C21_FirstTenInAggregationOrder ==
    [][(query' # query /\ query' # << >>) =>
          LET shown == { results'[i].feature : i \in DOMAIN results' }
              matching == MatchingWards(query') \cup MatchingSchools(query')
          IN  /\ shown \subseteq matching
              /\ \A i, j \in DOMAIN results' : i < j => Before(results'[i], results'[j])
              /\ \A f \in matching \ shown :
                     /\ Len(results') = 10
                     /\ \A i \in DOMAIN results' :
                            Before(results'[i],
                                   IF f.kind = "ward" THEN WardItem(f) ELSE SchoolItem(f))]_vars

\* the list shows a matching ward and, right after it, a matching school
C21_Witness ==
    \E i \in DOMAIN results :
        /\ i + 1 \in DOMAIN results
        /\ results[i].type = "Ward"
        /\ results[i + 1].type = "School"

\* the features of the datasets that are loaded now
LoadedFeatures ==
    (IF wardData = NULL THEN {} ELSE Range(wardData.features))
    \cup (IF schoolData = NULL THEN {} ELSE Range(schoolData.features))

\* C22: every item of the result list refers to a feature of a dataset that is
\* loaded now, and the list is the search of the current query over the datasets
\* that are loaded now.
C22_ResultsFollowDatasets ==
    /\ \A i \in DOMAIN results : results[i].feature \in LoadedFeatures
    /\ results = Search(query, searchableItems(wardData, schoolData))

\* the trees of the loaded census whose name contains q, case ignored
MatchingTrees(q) ==
    IF treeData = NULL THEN {}
    ELSE { f \in BagToSet(treeData.features) : ContainsIgnoringCase(f.TreeName, q) }

\* C23: when a non-empty query is typed that matches the name of a loaded tree and
\* the result list is not full, the list shows a tree.
C23_TreesAreIndexed ==
    [][(query' # query /\ query' # << >> /\ MatchingTrees(query') # {}
            /\ Len(results') < 10)
          => \E i \in DOMAIN results' : results'[i].feature \in MatchingTrees(query')]_vars

\* C24: a step that changes the selection or moves the map is the choice of an
\* item of the result list: it sets the selection to the feature of the item, fits
\* the map to the bounds of the item when it has bounds and otherwise centres it on
\* the location of the item at zoom 17, and leaves the query and the list empty.
C24_SelectSetsFeatureViewAndClears ==
    [][(openPopupFeature' # openPopupFeature \/ viewport' # viewport) =>
          \E i \in DOMAIN results :
              /\ openPopupFeature' = results[i].feature
              /\ IF results[i].type = "Ward"
                 THEN /\ viewport'.kind = "fitBounds"
                      /\ viewport'.bounds = results[i].bounds
                 ELSE /\ viewport'.kind = "setView"
                      /\ viewport'.center = results[i].latlng
                      /\ viewport'.zoom = 17
              /\ query' = << >>
              /\ results' = << >>]_vars

\* a ward was chosen: it is the selection, the map was fitted to its bounds and
\* the search box is empty
C24_Witness ==
    /\ openPopupFeature # NULL
    /\ openPopupFeature.kind = "ward"
    /\ viewport.kind = "fitBounds"
    /\ viewport.bounds = getBounds(openPopupFeature)
    /\ query = << >>
    /\ results = << >>

\* a candidate property that is present and not the empty string
NonEmpty(x) == x # Undefined /\ x # << >>

\* C25: every item of the index has a non-empty display name: for a ward its
\* KGISWardName, for a school its tags.name or else its name, when that property
\* is non-empty, and otherwise the literal "Unnamed Ward" or "Unnamed School".
C25_DisplayNameNeverEmpty ==
    \A item \in Range(searchableItems(wardData, schoolData)) :
        LET f == item.feature
        IN  /\ NonEmpty(item.name)
            /\ item.name =
                 IF f.kind = "ward"
                 THEN IF NonEmpty(f.KGISWardName) THEN f.KGISWardName
                      ELSE << "U", "n", "n", "a", "m", "e", "d", " ", "W", "a", "r", "d" >>
                 ELSE IF NonEmpty(f.tagsName) THEN f.tagsName
                      ELSE IF NonEmpty(f.name) THEN f.name
                      ELSE << "U", "n", "n", "a", "m", "e", "d", " ",
                              "S", "c", "h", "o", "o", "l" >>

\* the list shows a ward whose KGISWardName is the empty string as "Unnamed Ward"
\* while a school whose tags.name is empty is indexed under its name
C25_Witness ==
    /\ \E i \in DOMAIN results :
           /\ results[i].feature.KGISWardName = << >>
           /\ results[i].name = UnnamedWard
    /\ \E item \in Range(searchableItems(wardData, schoolData)) :
           /\ item.feature.tagsName = << >>
           /\ item.name = item.feature.name

\* C26: every school of the index is a Point with a coordinate pair, and the index
\* and the school renderer accept the same features of the loaded school dataset.
C26_IndexAndRendererFilterAgree ==
    /\ \A item \in Range(searchableItems(wardData, schoolData)) :
           item.type = "School" =>
               item.feature.geomType = "Point" /\ item.feature.ncoords = 2
    /\ schoolData # NULL =>
           \A f \in Range(schoolData.features) : SchoolIndexed(f) <=> SchoolDrawable(f)

\* C27: when a render pass draws a feature that was selected before it was drawn,
\* and the selection stays, the popup of the feature is open after that pass (a
\* render pass and the effects it runs are one step).
C27_PopupOpensOnceDrawn ==
    [][\A f \in AllFeatures :
          (/\ openPopupFeature = f /\ openPopupFeature' = f
           /\ f \notin Drawn /\ f \in Drawn'
           /\ ~ crashed')
              => f \in popups']_vars

\* C28: while the application runs, a selected feature belongs to the dataset that
\* is loaded now of a layer that is visible now.
C28_SelectionResolvable ==
    (~ crashed /\ openPopupFeature # NULL) =>
        /\ layersVisibility[Owner(openPopupFeature)]
        /\ openPopupFeature \in LoadedFeatures

\* C29: a step that opens a popup without the search box being used and without a
\* change of layers or datasets (a click on a ward or on a marker) makes the feature
\* of that popup the selection.
C29_ClickSelects ==
    [][(/\ popups' # popups /\ popups' # {}
        /\ UNCHANGED << query, results, layersVisibility, wardData, schoolData >>)
          => openPopupFeature' \in popups']_vars

\* C30: the failure of the ward fetch is logged once when it happens and at no other
\* time; after it wardData is null and the fetch stays failed whatever happens
\* next: no second ward fetch is issued.
C30_WardFailureIsFinal ==
    /\ [](wardErrors = IF wardFetch = "failed" THEN 1 ELSE 0)
    /\ [](wardFetch = "failed" => wardData = NULL)
    /\ [][wardFetch = "failed" => wardFetch' = "failed"]_vars

\* the ward fetch has failed and the ward layer was shown afterwards
C30_Witness ==
    /\ wardFetch = "failed"
    /\ wardErrors = 1
    /\ wardData = NULL
    /\ layersVisibility["ward"]

-----------------------------------------------------------------------------
(* Claims C31-C33: the bookmarks and their store *)

\* the elements of the list that the stored text holds, none when it holds no list
StoredItems ==
    IF mapBookmarks # NULL /\ mapBookmarks.kind = "json" /\ mapBookmarks.value.kind = "array"
    THEN mapBookmarks.value.items
    ELSE << >>

C32_StartupGivesAList ==
    /\ ~ crashed
    /\ bookmarks.kind = "array"
    /\ \A i \in DOMAIN bookmarks.items : bookmarks.items[i] \in AllBookmarks \cup { StoredBookmark }

-----------------------------------------------------------------------------
(* Claims C34-C35: the visibility toggles *)

\* C34: a toggle leaves the selection as it is unless it hides the layer that
\* owns the selected feature: a toggle that shows a layer, and a toggle of a layer
\* that does not own the selected feature, do not change the selection.
C34_OnlyHidingOwnerClears ==
    [][ \A layerId \in Layers :
          ( /\ layersVisibility'[layerId] # layersVisibility[layerId]
            /\ openPopupFeature # NULL
            /\ ~ (Owner(openPopupFeature) = layerId /\ layersVisibility[layerId]) )
          => openPopupFeature' = openPopupFeature ]_vars

\* the layers whose visibility differs between two maps
Flipped(before, after) == { layerId \in Layers : before[layerId] # after[layerId] }

\* useState({ ward: false, schools: true, trees: false, dem: false })
InitialVisibility == [ ward |-> FALSE, schools |-> TRUE, trees |-> FALSE, dem |-> FALSE ]

-----------------------------------------------------------------------------
(* Claim C36: the completions of overlapping loads *)

\* no school query is in flight
SchoolsIdle == \A k \in DOMAIN schoolLoads : schoolLoads[k] # "pending"

\* C36: once every load of a lazily loaded layer has settled and the layer is
\* visible, the dataset in the state is the one that the most recent attempt has
\* delivered, whatever the order in which the attempts have completed.
C36_LatestAttemptWins ==
    /\ ( /\ ~ crashed
         /\ layersVisibility["schools"]
         /\ SchoolsIdle
         /\ schoolLoads[Len(schoolLoads)] = "ok" )
       => (schoolData # NULL /\ schoolData.load = Len(schoolLoads))
    /\ ( /\ ~ crashed
         /\ layersVisibility["trees"]
         /\ TreesIdle )
       => (treeData # NULL /\ treeData.load = Len(treeLoads))

-----------------------------------------------------------------------------
(* Claims C37-C38: the popup of a selection *)

\* a step selects this feature: the state openPopupFeature becomes it
Selects(feature) == openPopupFeature' = feature /\ openPopupFeature # feature

C38_WardPopupIsTheSelected ==
    [][ \A feature \in WardDrawn(layersVisibility, wardData) :
          (Selects(feature) /\ Truthy(feature.KGISWardName)) => popups' = { feature } ]_vars

-----------------------------------------------------------------------------
(* Claim C39: the grey ramp *)

\* C39: under a range with globalMin <= globalMax, of two pixels of the band that
\* are drawn one after the other under that range, the one of the larger value
\* does not get the darker grey; a value at or below globalMin is drawn with 0,
\* and when globalMax > globalMin a value at or above globalMax is drawn with 255.
C39_ShadeIsMonotone ==
    /\ [][ ( /\ PixelInBand
             /\ PixelInBand'
             /\ pixel.globalMin <= pixel.globalMax
             /\ pixel'.globalMin = pixel.globalMin
             /\ pixel'.globalMax = pixel.globalMax )
           => /\ pixel.value.v <= pixel'.value.v
                    => pixel.colour.shade <= pixel'.colour.shade
              /\ pixel'.value.v <= pixel.value.v
                    => pixel'.colour.shade <= pixel.colour.shade ]_vars
    /\ []( (PixelInBand /\ pixel.globalMin <= pixel.globalMax)
            => /\ pixel.value.v <= pixel.globalMin => pixel.colour.shade = 0
               /\ ( /\ pixel.globalMax > pixel.globalMin
                    /\ pixel.value.v >= pixel.globalMax ) => pixel.colour.shade = 255 )

\* a pixel between the limits of the range was drawn with a grey between the two
\* ends of the ramp
C39_Witness ==
    /\ PixelInBand
    /\ pixel.globalMin = 0
    /\ pixel.globalMax = 100
    /\ pixel.value.v = 33
    /\ pixel.colour.shade = 84

====
